---- MODULE Spec2Model ----
(***************************************************************************)
(* A model of time_tracker.py: a per-day CSV log of task start events, one *)
(* process run per command line invocation (write / read), and the summary *)
(* that redistributes the time of minor tasks over the major ones.         *)
(*                                                                         *)
(* Text is modelled as a sequence of one-character strings, so that the    *)
(* CSV record format, the HH:MM formatting and parsing of times, the       *)
(* string ordering used by sort() and the True/False text of the boolean   *)
(* fields are computed, not assumed.                                       *)
(***************************************************************************)
EXTENDS Integers, Sequences, FiniteSets, TLC

VARIABLES clock, file, backups, last

vars == <<clock, file, backups, last>>

(***************************************************************************)
(* Bounds of the model.                                                    *)
(***************************************************************************)
\* the longest day (the number of entries of the day's file) of Spec
MaxEntries == 2

\* the longest day of SpecLog
MaxLog == 3

\* the longest day of SpecStop
MaxStop == 1

\* the longest day of SpecSummary
MaxDay == 3

\* the longest entry list of SpecRoundTrip
MaxRows == 2

(***************************************************************************)
(* Text.                                                                   *)
(***************************************************************************)
\* an optional value (None, or a value) is a sequence of at most one element
NoneVal == <<>>

Some(x) == <<x>>

Digits == <<"0", "1", "2", "3", "4", "5", "6", "7", "8", "9">>

IsDigit(c) == \E i \in 1..Len(Digits) : Digits[i] = c

DigitValue(c) == (CHOOSE i \in 1..Len(Digits) : Digits[i] = c) - 1

\* the code point order of the characters a start_time can hold: the digits,
\* then the colon
Ord(c) == IF IsDigit(c) THEN 48 + DigitValue(c) ELSE 58

\* Python's str.__lt__: lexicographic by code point, a proper prefix is smaller
RECURSIVE StrLess(_, _)
StrLess(a, b) ==
    IF b = <<>> THEN FALSE
    ELSE IF a = <<>> THEN TRUE
    ELSE IF Ord(Head(a)) # Ord(Head(b)) THEN Ord(Head(a)) < Ord(Head(b))
    ELSE StrLess(Tail(a), Tail(b))

\* str(True) / str(False)
StrBool(b) == IF b THEN <<"T", "r", "u", "e">> ELSE <<"F", "a", "l", "s", "e">>

\* '%02d' of strftime
TwoDigits(n) == <<Digits[(n \div 10) + 1], Digits[(n % 10) + 1]>>

\* the concatenation of a sequence of texts
RECURSIVE Concat(_)
Concat(ts) == IF ts = <<>> THEN <<>> ELSE Head(ts) \o Concat(Tail(ts))

(***************************************************************************)
(* Times of day.  The clock is the wall clock of the one day modelled, in  *)
(* seconds since midnight.                                                 *)
(***************************************************************************)
Hour(c) == c \div 3600

Minute(c) == (c \div 60) % 60

Second(c) == c % 60

\* StrfHM without the leading zero of the hour ('%-H:%M')
StrfHM_NoPad(t) ==
    (IF t.hour < 10 THEN <<Digits[t.hour + 1]>> ELSE TwoDigits(t.hour))
        \o <<":">> \o TwoDigits(t.minute)

\* strftime('%H:%M') of a time of day [hour, minute]
StrfHM(t) == TwoDigits(t.hour) \o <<":">> \o TwoDigits(t.minute)

\* datetime.now().strftime("%H%M%S")
StrfHMS(c) == TwoDigits(Hour(c)) \o TwoDigits(Minute(c)) \o TwoDigits(Second(c))

\* the value of one or two decimal digits
NumValue(ds) ==
    IF Len(ds) = 1 THEN DigitValue(ds[1])
    ELSE 10 * DigitValue(ds[1]) + DigitValue(ds[2])

\* datetime.strptime(t, '%H:%M'): one or two digits of hour (0..23), a colon,
\* one or two digits of minute (0..59); ok = FALSE stands for the ValueError
StrpHM(t) ==
    LET colons == {i \in 1..Len(t) : t[i] = ":"}
        p == IF colons = {} THEN 0 ELSE CHOOSE i \in colons : \A j \in colons : i <= j
        h == SubSeq(t, 1, p - 1)
        m == SubSeq(t, p + 1, Len(t))
        wellFormed ==
            /\ p # 0
            /\ Len(h) \in {1, 2}
            /\ Len(m) \in {1, 2}
            /\ \A i \in 1..Len(h) : IsDigit(h[i])
            /\ \A i \in 1..Len(m) : IsDigit(m[i])
    IN  IF wellFormed /\ NumValue(h) <= 23 /\ NumValue(m) <= 59
        THEN [ok |-> TRUE, hour |-> NumValue(h), minute |-> NumValue(m)]
        ELSE [ok |-> FALSE, hour |-> 0, minute |-> 0]

(***************************************************************************)
(* The record format: csv.DictWriter and csv.DictReader with the default   *)
(* (excel) dialect.                                                        *)
(***************************************************************************)
Comma == ","

Quote == "\""

CR == "\r"

LF == "\n"

\* QUOTE_MINIMAL: a field is quoted when it holds the delimiter, the quote
\* character or a character of the line terminator
NeedsQuote(f) == \E i \in 1..Len(f) : f[i] \in {Comma, Quote, CR, LF}

\* doublequote: every quote character of a quoted field is written twice
RECURSIVE DoubleQuotes(_)
DoubleQuotes(f) ==
    IF f = <<>> THEN <<>>
    ELSE (IF Head(f) = Quote THEN <<Quote, Quote>> ELSE <<Head(f)>>)
         \o DoubleQuotes(Tail(f))

CsvField(f) == IF NeedsQuote(f) THEN <<Quote>> \o DoubleQuotes(f) \o <<Quote>> ELSE f

RECURSIVE JoinFields(_)
JoinFields(fs) ==
    IF Len(fs) = 0 THEN <<>>
    ELSE IF Len(fs) = 1 THEN CsvField(fs[1])
    ELSE CsvField(Head(fs)) \o <<Comma>> \o JoinFields(Tail(fs))

\* writer.writerow: the fields, then the line terminator '\r\n'
CsvRow(fs) == JoinFields(fs) \o <<CR, LF>>

\* the reader's parser state: the fields and rows read so far
ReaderStart == [state |-> "START_RECORD", field |-> <<>>, row |-> <<>>, rows |-> <<>>]

SaveField(p) == [p EXCEPT !.row = Append(p.row, p.field), !.field = <<>>]

AddChar(p, c) == [p EXCEPT !.field = Append(p.field, c)]

GoTo(p, s) == [p EXCEPT !.state = s]

\* parse_process_char of the csv reader, for one character of a line
ProcessChar(p, c) ==
    LET nl == c \in {CR, LF}
        startField ==
            IF nl THEN GoTo(SaveField(p), "EAT_CRNL")
            ELSE IF c = Quote THEN GoTo(p, "IN_QUOTED_FIELD")
            ELSE IF c = Comma THEN GoTo(SaveField(p), "START_FIELD")
            ELSE GoTo(AddChar(p, c), "IN_FIELD")
    IN  CASE p.state = "START_RECORD" ->
                IF nl THEN GoTo(p, "EAT_CRNL") ELSE startField
          [] p.state = "START_FIELD" -> startField
          [] p.state = "IN_FIELD" ->
                IF nl THEN GoTo(SaveField(p), "EAT_CRNL")
                ELSE IF c = Comma THEN GoTo(SaveField(p), "START_FIELD")
                ELSE AddChar(p, c)
          [] p.state = "IN_QUOTED_FIELD" ->
                IF c = Quote THEN GoTo(p, "QUOTE_IN_QUOTED_FIELD") ELSE AddChar(p, c)
          [] p.state = "QUOTE_IN_QUOTED_FIELD" ->
                IF c = Quote THEN GoTo(AddChar(p, c), "IN_QUOTED_FIELD")
                ELSE IF c = Comma THEN GoTo(SaveField(p), "START_FIELD")
                ELSE IF nl THEN GoTo(SaveField(p), "EAT_CRNL")
                ELSE GoTo(AddChar(p, c), "IN_FIELD")
          [] p.state = "EAT_CRNL" ->
                IF nl THEN p ELSE GoTo(p, "ERROR")
          [] OTHER -> p

EmitRow(p) == [state |-> "START_RECORD", field |-> <<>>, row |-> <<>>,
               rows |-> Append(p.rows, p.row)]

\* the end of a line handed to the reader: the row is complete unless a quoted
\* field is still open
ProcessEol(p) ==
    CASE p.state \in {"START_RECORD", "EAT_CRNL"} -> EmitRow(p)
      [] p.state \in {"START_FIELD", "IN_FIELD", "QUOTE_IN_QUOTED_FIELD"} ->
            EmitRow(SaveField(p))
      [] OTHER -> p

\* open(..., newline=''): a line ends after '\n', after '\r\n' and after a
\* '\r' that no '\n' follows; the last line may lack its terminator
EndsLine(text, i) ==
    \/ text[i] = LF
    \/ text[i] = CR /\ (i = Len(text) \/ text[i + 1] # LF)
    \/ i = Len(text)

\* one character of the text, and the end of its line when it ends one
ReadChar(text, i, p) ==
    LET q == ProcessChar(p, text[i])
    IN  IF EndsLine(text, i) THEN ProcessEol(q) ELSE q

\* the characters lo..hi in order, the first half before the second
RECURSIVE ReadRange(_, _, _, _)
ReadRange(text, lo, hi, p) ==
    IF lo > hi THEN p
    ELSE IF lo = hi THEN ReadChar(text, lo, p)
    ELSE LET mid == (lo + hi) \div 2
             left == ReadRange(text, lo, mid, p)
         IN  IF left.state = "ERROR" THEN left ELSE ReadRange(text, mid + 1, hi, left)

\* the rows of the whole text; a quoted field left open at the end is closed
ReadAll(text) ==
    LET p == ReadRange(text, 1, Len(text), ReaderStart)
    IN  IF p.state = "IN_QUOTED_FIELD" THEN EmitRow(SaveField(p)).rows ELSE p.rows

\* list(csv.reader(f))
CsvReader(text) == ReadAll(text)

(***************************************************************************)
(* Entries and the day's file.                                             *)
(***************************************************************************)
\* CsvFields: the names of the fields of CsvEntry, the header row of the file
CsvFields ==
    << <<"d", "e", "s", "c", "r", "i", "p", "t", "i", "o", "n">>,
       <<"s", "t", "a", "r", "t", "_", "t", "i", "m", "e">>,
       <<"c", "o", "n", "t", "e", "x", "t">>,
       <<"i", "s", "_", "f", "i", "n", "i", "s", "h">>,
       <<"i", "s", "_", "m", "i", "n", "o", "r">> >>

CsvEntry(d, t, c, f, m) ==
    [description |-> d, start_time |-> t, context |-> c, is_finish |-> f, is_minor |-> m]

\* PostInit comparing with the lower-case text
PostInit_Lower(text) == text = <<"t", "r", "u", "e">>

\* CsvEntry.__post_init__ on a boolean field that was read as text
PostInit(text) == text = StrBool(TRUE)

\* CsvEntry(**d) for a row read from the file: every field arrives as text
EntryOfRow(row) == CsvEntry(row[1], row[2], row[3], PostInit(row[4]), PostInit(row[5]))

\* asdict(entry) as the writer writes it: str() of the two booleans
RowOfEntry(e) ==
    <<e.description, e.start_time, e.context, StrBool(e.is_finish), StrBool(e.is_minor)>>

\* csv.DictReader: rows without any field are skipped
DictReader(text) ==
    SelectSeq(CsvReader(text), LAMBDA row : row # <<>>)

\* list(reader)[1:]: the header row is dropped
DataRows(text) == Tail(DictReader(text))

\* read_entries.  f is the day's file: {} when it does not exist, else {text}.
\* A row that does not have the five fields cannot become a CsvEntry the
\* program can use (ok = FALSE: the run ends in a TypeError).
read_entries(f) ==
    IF f = {} THEN [ok |-> TRUE, entries |-> <<>>]
    ELSE LET text == CHOOSE t \in f : TRUE
             rows == IF DictReader(text) = <<>> THEN <<>> ELSE DataRows(text)
         IN  IF \A i \in 1..Len(rows) : Len(rows[i]) = Len(CsvFields)
             THEN [ok |-> TRUE, entries |-> [i \in 1..Len(rows) |-> EntryOfRow(rows[i])]]
             ELSE [ok |-> FALSE, entries |-> <<>>]

\* the text write_entries writes: the header, then one row per entry
FileText(entries) ==
    CsvRow(CsvFields) \o Concat([i \in 1..Len(entries) |-> CsvRow(RowOfEntry(entries[i]))])

\* the sort key of entries.sort(key=lambda e: e.start_time), compared as text
KeyLess(a, b) == StrLess(a.start_time, b.start_time)

\* one step of a stable sort: e goes behind every entry whose key is not larger
RECURSIVE InsertSorted(_, _)
InsertSorted(es, e) ==
    IF es = <<>> THEN <<e>>
    ELSE IF KeyLess(e, Head(es)) THEN <<e>> \o es
    ELSE <<Head(es)>> \o InsertSorted(Tail(es), e)

\* list.sort: stable
RECURSIVE SortEntries(_)
SortEntries(es) ==
    IF es = <<>> THEN <<>>
    ELSE InsertSorted(SortEntries(SubSeq(es, 1, Len(es) - 1)), es[Len(es)])

\* the timestamp of add_entry: the time given, or now
Timestamp(args, now) ==
    IF args.time # NoneVal THEN StrpHM(args.time[1])
    ELSE [ok |-> TRUE, hour |-> Hour(now), minute |-> Minute(now)]

\* NewEntry keeping the description of a stop write
NewEntry_KeepsDescription(args, now) ==
    LET timestr == StrfHM(Timestamp(args, now))
        context == IF args.context # NoneVal THEN args.context[1] ELSE args.description
    IN  CsvEntry(args.description, timestr, context, args.stop, args.minor)

\* the entry add_entry appends
NewEntry(args, now) ==
    LET timestr == StrfHM(Timestamp(args, now))
        context == IF args.context # NoneVal THEN args.context[1] ELSE args.description
    IN  IF ~args.stop
        THEN CsvEntry(args.description, timestr, context, FALSE, args.minor)
        ELSE CsvEntry(<<>>, timestr, context, TRUE, args.minor)

\* add_entry putting the new entry in the place of the entries that start at
\* the same time
add_entry_ReplacesTies(entries, args, now) ==
    IF ~Timestamp(args, now).ok THEN [ok |-> FALSE, entries |-> entries]
    ELSE LET e == NewEntry(args, now)
             others == SelectSeq(entries, LAMBDA x : x.start_time # e.start_time)
         IN  [ok |-> TRUE, entries |-> SortEntries(Append(others, e))]

\* add_entry: append, then sort (ok = FALSE: strptime raised ValueError)
add_entry(entries, args, now) ==
    IF ~Timestamp(args, now).ok THEN [ok |-> FALSE, entries |-> entries]
    ELSE [ok |-> TRUE, entries |-> SortEntries(Append(entries, NewEntry(args, now)))]

\* the path of the backup copy, told apart by its time-of-day tag
BackupPath(now) == StrfHMS(now)

\* shutil.copy(f, backup_path): a copy at the same path is overwritten
BackupCopy(bk, f, now) ==
    IF f = {} THEN bk
    ELSE [t \in DOMAIN bk \cup {BackupPath(now)} |->
            IF t = BackupPath(now) THEN CHOOSE x \in f : TRUE ELSE bk[t]]

(***************************************************************************)
(* The summary.  Python computes the stretch factor and the adjusted times *)
(* in floating point; the model computes them as exact fractions.          *)
(***************************************************************************)
Abs(n) == IF n < 0 THEN -n ELSE n

RECURSIVE Gcd(_, _)
Gcd(a, b) == IF b = 0 THEN a ELSE Gcd(b, a % b)

\* the fraction n / d (d # 0) in lowest terms with a positive denominator
Rat(n, d) ==
    LET g == Gcd(Abs(n), Abs(d))
        sgn == IF d < 0 THEN -1 ELSE 1
    IN  [num |-> sgn * (n \div g), den |-> sgn * (d \div g)]

RatAdd(x, y) == Rat(x.num * y.den + y.num * x.den, x.den * y.den)

RatMul(x, y) == Rat(x.num * y.num, x.den * y.den)

RECURSIVE SumInts(_)
SumInts(ns) == IF ns = <<>> THEN 0 ELSE Head(ns) + SumInts(Tail(ns))

RECURSIVE SumRats(_)
SumRats(xs) == IF xs = <<>> THEN Rat(0, 1) ELSE RatAdd(Head(xs), SumRats(Tail(xs)))

\* time_to_minutes with hour and minute taken for each other
time_to_minutes_Swapped(t) == StrpHM(t).hour + 60 * StrpHM(t).minute

\* time_to_minutes: minutes since midnight of a start_time
time_to_minutes(t) == StrpHM(t).minute + 60 * StrpHM(t).hour

\* now.minute + 60 * now.hour
NowMinutes(now) == Minute(now) + 60 * Hour(now)

\* time_minutes: the start times, then now
TimeMinutes(entries, now) ==
    [i \in 1..(Len(entries) + 1) |->
        IF i <= Len(entries) THEN time_to_minutes(entries[i].start_time)
        ELSE NowMinutes(now)]

\* durations: end - start over the successive pairs of time_minutes
Durations(entries, now) ==
    LET tm == TimeMinutes(entries, now)
    IN  [i \in 1..Len(entries) |-> tm[i + 1] - tm[i]]

\* total_time without the test of is_finish
TotalTime_CountsFinish(durations, entries) == SumInts(durations)

\* total_time: the durations of the entries that are no finish entries
TotalTime(durations, entries) ==
    SumInts([i \in 1..Len(entries) |->
                IF ~entries[i].is_finish THEN durations[i] ELSE 0])

\* major_time without the test of is_finish
MajorTime_IgnoresFinish(durations, entries) ==
    SumInts([i \in 1..Len(entries) |-> IF ~entries[i].is_minor THEN durations[i] ELSE 0])

\* major_time: the durations of the entries neither finish nor minor
MajorTime(durations, entries) ==
    SumInts([i \in 1..Len(entries) |->
                IF ~entries[i].is_finish /\ ~entries[i].is_minor THEN durations[i] ELSE 0])

\* whether an entry gets a MajorEntry record
IsMajor(e) == ~e.is_minor /\ ~e.is_finish

MajorEntry(e, d, stretch_factor) ==
    [description |-> e.description,
     original_minutes |-> d,
     minutes |-> RatMul(Rat(d, 1), stretch_factor),
     hours |-> RatMul(RatMul(Rat(d, 1), stretch_factor), Rat(1, 60)),
     context |-> e.context]

\* major_entries, in entry order
MajorEntries(entries, durations, stretch_factor) ==
    LET idx == SelectSeq([i \in 1..Len(entries) |-> i], LAMBDA i : IsMajor(entries[i]))
    IN  [k \in 1..Len(idx) |-> MajorEntry(entries[idx[k]], durations[idx[k]], stretch_factor)]

\* one ContextEntry per context of the major entries; their order, and the
\* order of tasks, is the iteration order of a Python set: a set here
ContextEntries(major_entries) ==
    LET contexts == {major_entries[k].context : k \in 1..Len(major_entries)}
        of(c) == SelectSeq(major_entries, LAMBDA e : e.context = c)
    IN  {[context |-> c,
          original_minutes |-> SumInts([k \in 1..Len(of(c)) |-> of(c)[k].original_minutes]),
          minutes |-> SumRats([k \in 1..Len(of(c)) |-> of(c)[k].minutes]),
          hours |-> SumRats([k \in 1..Len(of(c)) |-> of(c)[k].hours]),
          tasks |-> {of(c)[k].description : k \in 1..Len(of(c))}] : c \in contexts}

NoSummary ==
    [durations |-> <<>>, total_time |-> 0, major_time |-> 0, stretch_factor |-> Rat(0, 1),
     major_entries |-> <<>>, contextEntries |-> {}, total_hours |-> Rat(0, 1)]

\* print_summary: what it prints, or the exception that ends it
print_summary(entries, now) ==
    IF \E i \in 1..Len(entries) : ~StrpHM(entries[i].start_time).ok
    THEN [error |-> "ValueError", printed |-> NoSummary]
    ELSE LET durations == Durations(entries, now)
             total_time == TotalTime(durations, entries)
             major_time == MajorTime(durations, entries)
         IN  IF major_time = 0
             THEN [error |-> "ZeroDivisionError", printed |-> NoSummary]
             ELSE LET stretch_factor == Rat(total_time, major_time)
                      major_entries == MajorEntries(entries, durations, stretch_factor)
                  IN  [error |-> "",
                       printed |->
                          [durations |-> durations,
                           total_time |-> total_time,
                           major_time |-> major_time,
                           stretch_factor |-> stretch_factor,
                           major_entries |-> major_entries,
                           contextEntries |-> ContextEntries(major_entries),
                           total_hours |->
                              SumRats([k \in 1..Len(major_entries) |-> major_entries[k].hours])]]

(***************************************************************************)
(* One run of the program (__main__).  Runs do not overlap: each is one    *)
(* step.                                                                   *)
(***************************************************************************)
\* the exit status of a run: the handler of "except Exception" prints the error
\* and the trace and falls off the end of the script
ExitStatus(error) == 0

NoRun ==
    [mode |-> "none", args |-> NoneVal, now |-> 0, entries |-> <<>>, result |-> <<>>,
     error |-> "", exit |-> 0, summary |-> NoneVal]

Args(d, t, c, s, m) ==
    [description |-> d, time |-> t, context |-> c, stop |-> s, minor |-> m]

\* entries = read_entries(); entries.sort(key=lambda e: e.start_time)
Load(f) ==
    LET read == read_entries(f)
    IN  [ok |-> read.ok, entries |-> SortEntries(read.entries)]

\* write_entries: the backup copy of the file that exists, then the new file
write_entries(f, bk, entries, now) ==
    [file |-> {FileText(entries)}, backups |-> BackupCopy(bk, f, now)]

\* mode == 'write' after the load: add_entry, write_entries
WriteRun(loaded, f, bk, args, now) ==
    LET added == add_entry(loaded.entries, args, now)
        error == IF ~loaded.ok THEN "TypeError"
                 ELSE IF ~added.ok THEN "ValueError" ELSE ""
        written == write_entries(f, bk, added.entries, now)
    IN  [file |-> IF error = "" THEN written.file ELSE f,
         backups |-> IF error = "" THEN written.backups ELSE bk,
         last |-> [mode |-> "write", args |-> Some(args), now |-> now,
                   entries |-> loaded.entries,
                   result |-> IF error = "" THEN added.entries ELSE <<>>,
                   error |-> error, exit |-> ExitStatus(error), summary |-> NoneVal]]

\* mode == 'read' after the load: print_entries
ReadRun(loaded, now) ==
    LET summary == print_summary(loaded.entries, now)
        error == IF ~loaded.ok THEN "TypeError" ELSE summary.error
    IN  [mode |-> "read", args |-> NoneVal, now |-> now,
         entries |-> loaded.entries, result |-> <<>>,
         error |-> error, exit |-> ExitStatus(error),
         summary |-> IF error = "" THEN Some(summary.printed) ELSE NoneVal]

\* a write run with arguments of the set A, on a day of fewer than bound entries
WriteInvocation(A, bound) ==
    \E loaded \in {Load(file)} :
        /\ Len(loaded.entries) < bound
        /\ \E args \in A :
             LET run == WriteRun(loaded, file, backups, args, clock)
             IN  /\ file' = run.file
                 /\ backups' = run.backups
                 /\ last' = run.last
        /\ UNCHANGED clock

\* a read run
ReadInvocation ==
    /\ last' = ReadRun(Load(file), clock)
    /\ UNCHANGED <<clock, file, backups>>

\* time passes: the clock moves on to a later instant of I
Tick(I) ==
    /\ \E c \in I : c > clock /\ clock' = c
    /\ UNCHANGED <<file, backups, last>>

NoBackups == [t \in {} |-> <<>>]

(***************************************************************************)
(* Spec: the program with every kind of argument, on a short day.          *)
(***************************************************************************)
\* instants of the day at which a run may start
Instants == {9 * 3600, 10 * 3600}

Descriptions == {<<"a">>, <<"b", ",">>}

\* --time: absent, a time with a one-digit hour, no time at all
TimeArgs == {NoneVal, Some(<<"9", ":", "3", "0">>), Some(<<"9", "h">>)}

ContextArgs == {NoneVal, Some(<<"P">>)}

WriteArgs ==
    {Args(d, t, c, s, m) :
        d \in Descriptions, t \in TimeArgs, c \in ContextArgs, s \in BOOLEAN, m \in BOOLEAN}

Init ==
    /\ clock = 9 * 3600
    /\ file = {}
    /\ backups = NoBackups
    /\ last = NoRun

Next == Tick(Instants) \/ WriteInvocation(WriteArgs, MaxEntries) \/ ReadInvocation

Spec == Init /\ [][Next]_vars

(***************************************************************************)
(* SpecLog: a day of writes that differ in their time, and reads.          *)
(***************************************************************************)
LogArgs ==
    {Args(d, t, NoneVal, FALSE, FALSE) : d \in Descriptions, t \in TimeArgs}

NextLog == Tick(Instants) \/ WriteInvocation(LogArgs, MaxLog) \/ ReadInvocation

SpecLog == Init /\ [][NextLog]_vars

(***************************************************************************)
(* SpecStop: writes that differ in description, context and flags.         *)
(***************************************************************************)
StopArgs ==
    {Args(d, NoneVal, c, s, m) :
        d \in Descriptions, c \in ContextArgs, s \in BOOLEAN, m \in BOOLEAN}

NextStop == Tick(Instants) \/ WriteInvocation(StopArgs, MaxStop) \/ ReadInvocation

SpecStop == Init /\ [][NextStop]_vars

(***************************************************************************)
(* SpecSummary: the summary of every day of a set of days, read at two     *)
(* instants: before the last start time of the day, and after it.          *)
(***************************************************************************)
\* all sequences over S of length at most n
SeqsUpTo(S, n) == UNION {[1..k -> S] : k \in 0..n}

T0900 == <<"0", "9", ":", "0", "0">>

T0930 == <<"0", "9", ":", "3", "0">>

T0945 == <<"0", "9", ":", "4", "5">>

\* a major task, a minor task and the two kinds of finish entry at each time
DayEntries ==
    {CsvEntry(<<"W">>, T0900, <<"P">>, FALSE, FALSE),
     CsvEntry(<<"R">>, T0930, <<"Q">>, FALSE, FALSE),
     CsvEntry(<<"W">>, T0945, <<"P">>, FALSE, FALSE)}
    \cup {CsvEntry(<<"E">>, t, <<"P">>, FALSE, TRUE) : t \in {T0900, T0930, T0945}}
    \cup {CsvEntry(<<>>, t, <<"S">>, TRUE, m) : t \in {T0900, T0930, T0945}, m \in BOOLEAN}

\* the days the file can hold: the program keeps the file sorted
Days ==
    {es \in SeqsUpTo(DayEntries, MaxDay) :
        \A i \in 1..(Len(es) - 1) : ~KeyLess(es[i + 1], es[i])}

SummaryInstants == {9 * 3600 + 40 * 60, 10 * 3600}

InitSummary ==
    /\ clock = 9 * 3600 + 40 * 60
    /\ file \in {{FileText(es)} : es \in Days}
    /\ backups = NoBackups
    /\ last = NoRun

NextSummary == Tick(SummaryInstants) \/ ReadInvocation

SpecSummary == InitSummary /\ [][NextSummary]_vars

(***************************************************************************)
(* SpecRoundTrip: write_entries, then read_entries, for every entry list   *)
(* of a set of lists whose text holds the characters the record format     *)
(* treats specially.                                                       *)
(***************************************************************************)
Texts == {<<>>, <<"a", ",">>, <<"\"", "b">>, <<"c", "\r", "\n">>}

RowEntries == {CsvEntry(d, T0900, d, f, m) : d \in Texts, f \in BOOLEAN, m \in BOOLEAN}

InitRoundTrip ==
    /\ clock = 9 * 3600
    /\ file = {}
    /\ backups = NoBackups
    /\ last \in {[NoRun EXCEPT !.result = es] : es \in SeqsUpTo(RowEntries, MaxRows)}

\* write_entries(entries) of the list in memory
Persist ==
    /\ last.mode = "none"
    /\ LET written == write_entries(file, backups, last.result, clock)
       IN  file' = written.file /\ backups' = written.backups
    /\ last' = [last EXCEPT !.mode = "persisted"]
    /\ UNCHANGED clock

\* read_entries()
Reload ==
    /\ last.mode = "persisted"
    /\ LET read == read_entries(file)
       IN  last' = [last EXCEPT !.mode = "loaded", !.entries = read.entries,
                                !.error = IF read.ok THEN "" ELSE "TypeError"]
    /\ UNCHANGED <<clock, file, backups>>

NextRoundTrip == Persist \/ Reload

SpecRoundTrip == InitRoundTrip /\ [][NextRoundTrip]_vars

(***************************************************************************)
(* Properties.                                                             *)
(***************************************************************************)
\* the entries of the day's file, in the order of its rows
Persisted == read_entries(file).entries

Range(f) == {f[x] : x \in DOMAIN f}

RemoveAt(es, i) == SubSeq(es, 1, i - 1) \o SubSeq(es, i + 1, Len(es))

\* after is before with one entry put in somewhere
AddsOne(before, after) ==
    /\ Len(after) = Len(before) + 1
    /\ \E i \in 1..Len(after) : RemoveAt(after, i) = before

\* non-decreasing by time of day
Chronological(es) ==
    \A i \in 1..Len(es) : \A j \in i..Len(es) :
        time_to_minutes(es[i].start_time) <= time_to_minutes(es[j].start_time)

WroteOk == last.mode = "write" /\ last.error = ""

ReadOk == last.mode = "read" /\ last.summary # NoneVal

\* ---- C4 ----------------------------------------------------------------
\* C4: the list held after load-and-sort, the list add_entry returns and the
\* list persisted to the day's file are non-decreasing by start_time in
\* chronological order, after any sequence of writes.
C4_SortInvariant ==
    /\ Chronological(last.entries)
    /\ Chronological(last.result)
    /\ Chronological(Persisted)

\* a write with an explicit time that lies before the start of an entry which
\* the file already holds: the new entry does not stay at the end
C4_Witness ==
    /\ WroteOk
    /\ last.args[1].time # NoneVal
    /\ Len(last.result) >= 2
    /\ last.result[1] = NewEntry(last.args[1], last.now)
    /\ KeyLess(last.result[1], last.result[2])
    /\ Persisted = last.result

\* ---- C5 ----------------------------------------------------------------
\* C5: a successful write adds exactly one entry to the persisted list and
\* keeps every entry that was persisted, with its five fields; nothing else
\* changes the file, and a read leaves it as it is.  With the file absent at
\* the start, k successful writes leave k entries.
C5_AppendOnly ==
    [][\A before \in {Persisted}, after \in {read_entries(file').entries} :
           /\ (last' # last /\ last'.mode = "write" /\ last'.error = "")
                 => AddsOne(before, after)
           /\ (last' # last /\ last'.mode = "write" /\ last'.error # "")
                 => file' = file
           /\ file' # file => AddsOne(before, after)
           /\ last'.mode = "read" => file' = file]_vars

\* a successful write onto a file that holds entries already
C5_Witness ==
    /\ WroteOk
    /\ Len(last.entries) >= 2
    /\ AddsOne(last.entries, Persisted)

\* ---- C6 ----------------------------------------------------------------
\* C6: an entry list written by write_entries and loaded by read_entries comes
\* back as the same sequence, the two flags as the booleans they were, written
\* as the text True or False.
C6_RoundTrip ==
    last.mode = "loaded" =>
        /\ last.error = ""
        /\ last.entries = last.result
        /\ \A t \in file : \A i \in 1..Len(DataRows(t)) :
              /\ DataRows(t)[i][4] = StrBool(last.result[i].is_finish)
              /\ DataRows(t)[i][5] = StrBool(last.result[i].is_minor)

\* a list of two entries was written and loaded: one holds a quote character,
\* one a line break, and the flags take both values
C6_Witness ==
    /\ last.mode = "loaded"
    /\ Len(last.result) = 2
    /\ Quote \in Range(last.result[1].description)
    /\ CR \in Range(last.result[2].description)
    /\ last.entries[1].is_finish /\ ~last.entries[1].is_minor
    /\ ~last.entries[2].is_finish /\ last.entries[2].is_minor

\* ---- C7 ----------------------------------------------------------------
WithDescription(args, d) == [args EXCEPT !.description = d]

StopWrite == WroteOk /\ last.args[1].stop

\* C7 as stated: with the stop flag set, the list add_entry returns is the
\* same whatever description is passed, for the same time, context argument
\* (an absent one too) and minor flag.
C7_DescriptionDiscarded ==
    StopWrite =>
        \A d \in Descriptions :
            add_entry(last.entries, WithDescription(last.args[1], d), last.now).entries
                = last.result

\* C7 as amended: with the stop flag set, add_entry appends an entry with an
\* empty description and is_finish = true.  When a context argument is given,
\* the result is the same whatever description is passed.  When it is absent,
\* the context of the entry is the description passed, and the entries for two
\* descriptions differ in their context only.
C7_StopEntry ==
    StopWrite =>
        LET args == last.args[1]
            e == NewEntry(args, last.now)
        IN  /\ AddsOne(last.entries, last.result)
            /\ \E i \in 1..Len(last.result) :
                  last.result[i] = e /\ RemoveAt(last.result, i) = last.entries
            /\ e.description = <<>>
            /\ e.is_finish = TRUE
            /\ e.is_minor = args.minor
            /\ \A d \in Descriptions :
                  LET other == WithDescription(args, d)
                  IN  /\ args.context # NoneVal =>
                            add_entry(last.entries, other, last.now).entries = last.result
                      /\ args.context = NoneVal =>
                            NewEntry(other, last.now) = [e EXCEPT !.context = d]

\* a stop write without a context argument, with a description
C7_Witness ==
    /\ StopWrite
    /\ last.args[1].context = NoneVal
    /\ last.args[1].description = <<"b", ",">>
    /\ last.args[1].minor
    /\ Persisted = last.result

\* ---- C1 ----------------------------------------------------------------
\* the minutes of the day of a start time written as HH:MM
MinutesOfDay(t) ==
    60 * (10 * DigitValue(t[1]) + DigitValue(t[2])) + 10 * DigitValue(t[4]) + DigitValue(t[5])

\* total_minutes: the durations of all entries but the finish entries
NonFinishMinutes(es, d) ==
    SumInts([i \in 1..Len(es) |-> IF es[i].is_finish THEN 0 ELSE d[i]])

\* major_minutes: the durations of the entries neither finish nor minor
MajorMinutes(es, d) ==
    SumInts([i \in 1..Len(es) |-> IF es[i].is_finish \/ es[i].is_minor THEN 0 ELSE d[i]])

\* the entries that are neither finish nor minor, in order
MajorOnes(es) == SelectSeq(es, LAMBDA e : ~e.is_finish /\ ~e.is_minor)

\* the day of Scenario A: a major task at 09:00, a minor one at 09:30, the
\* major task again at 09:45, read at 10:00
ScenarioA ==
    /\ last.mode = "read"
    /\ last.now = 10 * 3600
    /\ last.entries = <<CsvEntry(<<"W">>, T0900, <<"P">>, FALSE, FALSE),
                        CsvEntry(<<"E">>, T0930, <<"P">>, FALSE, TRUE),
                        CsvEntry(<<"W">>, T0945, <<"P">>, FALSE, FALSE)>>

\* C1: whenever the summary is printed, the adjusted minutes of the major
\* entries add up to total_minutes, the minutes of all entries that are no
\* finish entries, and the total of the adjusted hours is total_minutes / 60
\* (in exact arithmetic).
C1_Conservation ==
    ReadOk =>
        LET s == last.summary[1]
            total == NonFinishMinutes(last.entries, s.durations)
        IN  /\ SumRats([k \in 1..Len(s.major_entries) |-> s.major_entries[k].minutes])
                  = Rat(total, 1)
            /\ s.total_hours = Rat(total, 60)

\* Scenario A: 45 major minutes of 60, a stretch factor of 4/3, adjusted
\* minutes 40 and 20
C1_Witness ==
    /\ ScenarioA
    /\ ReadOk
    /\ last.summary[1].major_time = 45
    /\ last.summary[1].total_time = 60
    /\ last.summary[1].stretch_factor = Rat(4, 3)
    /\ last.summary[1].major_entries[1].minutes = Rat(40, 1)
    /\ last.summary[1].major_entries[2].minutes = Rat(20, 1)
    /\ last.summary[1].total_hours = Rat(1, 1)

\* ---- C2 ----------------------------------------------------------------
\* C2: whenever the summary computes a stretch factor, the factor is at least 1.
C2_StretchAtLeastOne ==
    ReadOk => last.summary[1].stretch_factor.num >= last.summary[1].stretch_factor.den

\* ---- C3 ----------------------------------------------------------------
\* C3: a read of a day without a major entry (no entry at all, or finish and
\* minor entries only) ends in the division error, prints no summary, and the
\* run exits non-zero.
C3_ZeroMajorError ==
    (last.mode = "read" /\ MajorOnes(last.entries) = <<>>) =>
        /\ last.error = "ZeroDivisionError"
        /\ last.summary = NoneVal
        /\ last.exit # 0

\* ---- C8 ----------------------------------------------------------------
\* what a summary run reports, apart from the durations
Reported(r) ==
    [error |-> r.error,
     total_time |-> r.printed.total_time,
     major_time |-> r.printed.major_time,
     stretch_factor |-> r.printed.stretch_factor,
     major_entries |-> r.printed.major_entries,
     contextEntries |-> r.printed.contextEntries,
     total_hours |-> r.printed.total_hours]

\* C8: a finish entry adds nothing to total_minutes and major_minutes,
\* whatever its duration and its minor flag, and is in no major record and no
\* context summary; when the last entry of the day is a finish entry, the run
\* reports the same at every instant.
C8_FinishCarriesNoTime ==
    last.mode = "read" =>
        LET es == last.entries
            d == Durations(es, last.now)
            finish == {i \in 1..Len(es) : es[i].is_finish}
            majors == MajorOnes(es)
        IN  /\ \A i \in finish : \A x \in {0, 1, d[i] + 60} :
                  /\ TotalTime([d EXCEPT ![i] = x], es) = TotalTime(d, es)
                  /\ MajorTime([d EXCEPT ![i] = x], es) = MajorTime(d, es)
            /\ ReadOk =>
                  LET s == last.summary[1]
                  IN  /\ s.total_time = NonFinishMinutes(es, d)
                      /\ s.major_time = MajorMinutes(es, d)
                      /\ Len(s.major_entries) = Len(majors)
                      /\ \A k \in 1..Len(majors) :
                            /\ s.major_entries[k].description = majors[k].description
                            /\ s.major_entries[k].context = majors[k].context
                      /\ {c.context : c \in s.contextEntries}
                            = {majors[k].context : k \in 1..Len(majors)}
                      /\ \A c \in s.contextEntries :
                            c.tasks \subseteq {majors[k].description : k \in 1..Len(majors)}
            /\ (es # <<>> /\ es[Len(es)].is_finish) =>
                  \A c \in SummaryInstants :
                      Reported(print_summary(es, c)) = Reported(print_summary(es, last.now))

\* a summary of a day that ends in a finish entry, 15 minutes before the read,
\* and holds a finish entry flagged minor followed by half an hour
C8_Witness ==
    /\ ReadOk
    /\ Len(last.entries) = 3
    /\ last.entries[3].is_finish
    /\ last.summary[1].durations[3] = 15
    /\ last.entries[1].is_finish /\ last.entries[1].is_minor
    /\ last.summary[1].durations[1] = 30
    /\ last.summary[1].total_time = 15

\* ---- C9 ----------------------------------------------------------------
\* C9: a write that finds a file for today leaves its content as a backup
\* copy, and a content that is a backup copy stays one.
C9_BackupsKept ==
    [][/\ (file # {} /\ file' # file) => \A t \in file : t \in Range(backups')
       /\ \A t \in Range(backups) : t \in Range(backups')]_vars

\* ---- C10 ---------------------------------------------------------------
\* C10: the summary derives one duration per entry, in entry order: for every
\* entry but the last the minutes from its start to the next start, for the
\* last the minutes from its start to now.
C10_Durations ==
    last.mode = "read" =>
        LET es == last.entries
            n == Len(es)
            d == Durations(es, last.now)
        IN  /\ Len(d) = n
            /\ \A i \in 1..(n - 1) :
                  d[i] = MinutesOfDay(es[i + 1].start_time) - MinutesOfDay(es[i].start_time)
            /\ n > 0 => d[n] = (last.now \div 60) - MinutesOfDay(es[n].start_time)
            /\ ReadOk => last.summary[1].durations = d

\* starts 09:00, 09:30, 09:45 and now = 10:00 give durations [30, 15, 15]
C10_Witness ==
    /\ ScenarioA
    /\ ReadOk
    /\ last.summary[1].durations = <<30, 15, 15>>

====
